---- MODULE Spec2Model ----
(***************************************************************************)
(* A state-machine model of src/esptool.py: the interactive ESP32          *)
(* MicroPython flashing tool (MenuSelector, ESPToolManager, main).         *)
(*                                                                         *)
(* The program is single-threaded; pc is the position of the one thread.   *)
(* External collaborators (esptool subprocess, serial port, HTTP, the      *)
(* keyboard) are inputs drawn with \E from small sets of outcomes.         *)
(***************************************************************************)
EXTENDS Integers, Sequences, FiniteSets, TLC

(***************************************************************************)
(* Bounds of the model (not program constants).                            *)
(***************************************************************************)
\* Longest list of candidate serial ports the environment offers.
MaxPorts == 2
\* Most *.bin files present in the working directory.
MaxBinFiles == 2

(***************************************************************************)
(* Python exceptions.  An exception value is a record [cls, code]; code is *)
(* the argument of sys.exit for SystemExit and 0 otherwise.                *)
(***************************************************************************)
ExcParent(c) ==
    CASE c = "Exception"          -> "BaseException"
      [] c = "KeyboardInterrupt"  -> "BaseException"
      [] c = "SystemExit"         -> "BaseException"
      [] c = "OSError"            -> "Exception"
      [] c = "ImportError"        -> "Exception"
      [] c = "ValueError"         -> "Exception"
      [] c = "EOFError"           -> "Exception"
      [] c = "termios.error"      -> "Exception"
      [] c = "SubprocessError"    -> "Exception"
      [] c = "TimeoutExpired"     -> "SubprocessError"
      [] c = "CalledProcessError" -> "SubprocessError"
      [] c = "FileNotFoundError"  -> "OSError"
      [] c = "SerialException"    -> "OSError"
      [] c = "PermissionError"    -> "OSError"
      [] c = "RequestException"   -> "OSError"
      [] OTHER                    -> "BaseException"

RECURSIVE IsSubclass(_, _)
IsSubclass(c, base) ==
    IF c = base THEN TRUE
    ELSE IF c = "BaseException" THEN FALSE
    ELSE IsSubclass(ExcParent(c), base)

\* Does an `except (classes...)` clause catch exception value e?
Catches(classes, e) == \E c \in classes : IsSubclass(e.cls, c)

Raise(c) == [cls |-> c, code |-> 0]

\* sys.exit(n) raises SystemExit carrying n.
SysExit(n) == [cls |-> "SystemExit", code |-> n]

(***************************************************************************)
(* Strings.  A string value is kept as a TLA+ string; for the substring    *)
(* and prefix tests of the code it is cut into atoms, chosen so that every *)
(* needle the code searches for is a run of whole atoms.                   *)
(***************************************************************************)
Atoms(s) ==
    CASE s = "/dev/tty.usbmodem101"             -> <<"/dev/tty.", "usbmodem", "101">>
      [] s = "/dev/tty.usbserial-0001"          -> <<"/dev/tty.", "usbserial", "-0001">>
      [] s = "/dev/tty.Bluetooth-Incoming-Port" -> <<"/dev/tty.", "Bluetooth", "-Incoming-Port">>
      [] s = "/dev/tty.debug-console"           -> <<"/dev/tty.", "debug", "-console">>
      [] s = "/dev/tty.manual"                  -> <<"/dev/tty.", "manual">>
      \* esptool chip-id output
      [] s = "Chip is ESP32-C3 (revision v0.4)" -> <<"Chip is ", "ESP32", "-C3", " (revision v0.4)">>
      [] s = "Chip is ESP32-S3 (QFN56)"         -> <<"Chip is ", "ESP32", "-S3", " (QFN56)">>
      [] s = "Chip is ESP32-C6FH4"              -> <<"Chip is ", "ESP32", "-C6", "FH4">>
      [] s = "Chip is ESP32-D0WD-V3"            -> <<"Chip is ", "ESP32", "-D0WD-V3">>
      [] s = "Chip is ESP32-H2"                 -> <<"Chip is ", "ESP32", "-H2">>
      [] s = "Detecting chip type... esp32c3"   -> <<"Detecting chip type... ", "esp32", "c3">>
      [] s = "Chip is ESP8266EX"                -> <<"Chip is ", "ESP8266EX">>
      \* device labels built by detect_esp32_devices
      [] s = "ESP32-C3"                         -> <<"ESP32", "-C3">>
      [] s = "ESP32-S3"                         -> <<"ESP32", "-S3">>
      [] s = "ESP32-C6"                         -> <<"ESP32", "-C6">>
      [] s = "ESP32"                            -> <<"ESP32">>
      [] s = "ESP32 - Unknown variant"          -> <<"ESP32", " - Unknown variant">>
      \* needles
      [] s = "esp32-c3"                         -> <<"esp32", "-c3">>
      [] s = "esp32c3"                          -> <<"esp32", "c3">>
      [] s = "esp32-s3"                         -> <<"esp32", "-s3">>
      [] s = "esp32s3"                          -> <<"esp32", "s3">>
      [] s = "esp32-c6"                         -> <<"esp32", "-c6">>
      [] s = "esp32c6"                          -> <<"esp32", "c6">>
      [] s = "esp32"                            -> <<"esp32">>
      [] s = "bluetooth"                        -> <<"bluetooth">>
      [] s = "debug"                            -> <<"debug">>
      [] s = "usbmodem"                         -> <<"usbmodem">>
      \* lines of a serial transcript
      [] s = "MicroPython v1.26.1 on esp32c3"   -> <<"MicroPython", " v1.26.1 on ", "esp32", "c3">>
      [] s = ">>> print(sys.version)"           -> <<">>> print(sys.", "version", ")">>
      [] s = "3.4.0; MicroPython v1.26.1 on 2025-09-11\r"
                                                -> <<"3.4.0; ", "MicroPython", " v1.26.1 on 2025-09-11", "\r">>
      [] s = "3.4.0; MicroPython v1.26.1 on 2025-09-11"
                                                -> <<"3.4.0; ", "MicroPython", " v1.26.1 on 2025-09-11">>
      [] s = ">>> print(sys.implementation)"    -> <<">>> print(sys.", "implementation", ")">>
      [] s = "(name='micropython', version=(1, 26, 1))"
                                                -> <<"(name='", "micropython", "', ", "version", "=(1, 26, 1))">>
      [] s = ">>> print(sys.platform)"          -> <<">>> print(sys.", "platform", ")">>
      [] s = "esp32\r"                          -> <<"esp32", "\r">>
      [] s = "ESP-IDF v5.1 2nd stage bootloader" -> <<"ESP-IDF", " v5.1 2nd stage bootloader">>
      [] s = "Arduino sketch running"           -> <<"Arduino", " sketch running">>
      [] s = "Arduino on ESP32"                 -> <<"Arduino", " on ", "ESP32">>
      [] s = "micropython"                      -> <<"micropython">>
      [] s = "version"                          -> <<"version">>
      [] s = "implementation"                   -> <<"implementation">>
      [] s = "platform"                         -> <<"platform">>
      [] s = "esp-idf"                          -> <<"esp-idf">>
      [] s = "arduino"                          -> <<"arduino">>
      \* files of the working directory
      [] s = "firmware.bin"                     -> <<"firmware", ".bin">>
      [] s = "esp32c3-backup.bin"               -> <<"esp32", "c3", "-backup", ".bin">>
      [] s = "esp32-old.bin"                    -> <<"esp32", "-old", ".bin">>
      [] s = "ESP32_GENERIC_C3-20250911-v1.26.1.bin"
                                                -> <<"ESP32", "_GENERIC_C3-20250911-v1.26.1", ".bin">>
      [] s = "ESP32_GENERIC_C3-20241220-v1.26.1.bin"
                                                -> <<"ESP32", "_GENERIC_C3-20241220-v1.26.1", ".bin">>
      [] s = "ESP32_GENERIC_S3-20250911-v1.26.1.bin"
                                                -> <<"ESP32", "_GENERIC_S3-20250911-v1.26.1", ".bin">>
      [] s = "ESP32_GENERIC_S3-20241220-v1.26.1.bin"
                                                -> <<"ESP32", "_GENERIC_S3-20241220-v1.26.1", ".bin">>
      [] s = "ESP32_GENERIC_C6-20250911-v1.26.1.bin"
                                                -> <<"ESP32", "_GENERIC_C6-20250911-v1.26.1", ".bin">>
      [] s = "ESP32_GENERIC_C6-20241220-v1.26.1.bin"
                                                -> <<"ESP32", "_GENERIC_C6-20241220-v1.26.1", ".bin">>
      [] s = "ESP32_GENERIC-20250911-v1.26.1.bin"
                                                -> <<"ESP32", "_GENERIC-20250911-v1.26.1", ".bin">>
      [] s = "ESP32_GENERIC-20241220-v1.26.1.bin"
                                                -> <<"ESP32", "_GENERIC-20241220-v1.26.1", ".bin">>
      [] s = ""                                 -> <<>>
      [] OTHER                                  -> <<s>>

\* str.lower() on one atom.
LowerAtom(a) ==
    CASE a = "ESP32"              -> "esp32"
      [] a = "-C3"                -> "-c3"
      [] a = "-S3"                -> "-s3"
      [] a = "-C6"                -> "-c6"
      [] a = "-H2"                -> "-h2"
      [] a = "FH4"                -> "fh4"
      [] a = "-D0WD-V3"           -> "-d0wd-v3"
      [] a = "Bluetooth"          -> "bluetooth"
      [] a = "-Incoming-Port"     -> "-incoming-port"
      [] a = "Chip is "           -> "chip is "
      [] a = "Detecting chip type... " -> "detecting chip type... "
      [] a = " (QFN56)"           -> " (qfn56)"
      [] a = "ESP8266EX"          -> "esp8266ex"
      [] a = "MicroPython"        -> "micropython"
      [] a = "ESP-IDF"            -> "esp-idf"
      [] a = "Arduino"            -> "arduino"
      [] a = " - Unknown variant" -> " - unknown variant"
      [] OTHER                    -> a

\* s.lower(), as atoms.
Lower(s) == [i \in DOMAIN Atoms(s) |-> LowerAtom(Atoms(s)[i])]

\* `needle in hay` on atom sequences: needle occurs as a contiguous run.
Contains(needle, hay) ==
    \E i \in 0..(Len(hay) - Len(needle)) :
        SubSeq(hay, i + 1, i + Len(needle)) = needle

\* `needle in s.lower()`
InLower(needle, s) == Contains(Atoms(needle), Lower(s))

(***************************************************************************)
(* State.                                                                  *)
(***************************************************************************)
VARIABLES
    pc,             \* position of the single thread
    exitStatus,     \* process exit status; -1 while the process runs
    terminal,       \* what the menus find at stdin: "raw", "fallback" or "notty"
    items,          \* MenuSelector.items / the option list being shown
    current_index,  \* highlighted index of the menu being shown
    ports,          \* detect_esp32_devices: glob result
    portIdx,        \* detect_esp32_devices: loop position in ports
    esp32_ports,    \* detect_esp32_devices: accepted ports
    device_info,    \* detect_esp32_devices: display list
    device_port,    \* ESPToolManager.device_port
    device_model,   \* ESPToolManager.device_model
    serialOpen,     \* a serial.Serial object is open and not closed
    firmware_info,  \* descriptor returned by detect_current_firmware
    firmware_file,  \* ESPToolManager.firmware_file
    workdir,        \* *.bin files of the working directory, as a listing gives them
    fetched,        \* requests.get calls issued, in order
    flash_cmd,      \* flash_micropython: the write-flash argument list
    calls,          \* subprocess.run calls issued by flash_micropython
    trace           \* calls and returns of the workflow steps, in order

vars == <<pc, exitStatus, terminal, items, current_index, ports, portIdx,
          esp32_ports, device_info, device_port, device_model, serialOpen,
          firmware_info, firmware_file, workdir, fetched, flash_cmd, calls,
          trace>>

menuVars  == <<items, current_index>>
probeVars == <<ports, portIdx, esp32_ports, device_info>>
devVars   == <<device_port, device_model>>
fwVars    == <<serialOpen, firmware_info>>
resVars   == <<firmware_file, workdir, fetched>>
flashVars == <<flash_cmd, calls>>

\* None of Python, for string-valued fields.
None == "None"

NoFirmwareInfo ==
    [is_micropython |-> FALSE, version |-> None, implementation |-> None,
     platform |-> None, raw_output |-> <<>>]

\* Events of the trace: step fn was called, returned val, or raised.
Call(fn) == [ev |-> "call", fn |-> fn, val |-> None]

Return(fn, val) == [ev |-> "return", fn |-> fn, val |-> val]

Raises(fn, e) == [ev |-> "raise", fn |-> fn, val |-> e.cls]

\* How the try block of lines 68-79 (and 402-413) fares, the same for every
\* menu of a session:
\*   "raw"      termios is there and stdin is a terminal: a key is read;
\*   "fallback" `import termios` raises ImportError or sys.stdin.fileno()
\*              raises an OSError: the handler of line 95 (433) reads a line;
\*   "notty"    termios is there but stdin is not a terminal (a pipe, a file):
\*              termios.tcgetattr (line 73, 407) raises termios.error, which
\*              is neither an ImportError nor an OSError and leaves the menu.
TerminalModes == {"raw", "fallback", "notty"}

\* ESPToolManager.__init__ and the start of main().
Init ==
    /\ pc = "check_dependencies"
    /\ exitStatus = -1
    /\ terminal \in TerminalModes
    /\ items = <<>>
    /\ current_index = 0
    /\ ports = <<>>
    /\ portIdx = 1
    /\ esp32_ports = <<>>
    /\ device_info = <<>>
    /\ device_port = None
    /\ device_model = None
    /\ serialOpen = FALSE
    /\ firmware_info = NoFirmwareInfo
    /\ firmware_file = None
    /\ workdir = <<>>
    /\ fetched = <<>>
    /\ flash_cmd = <<>>
    /\ calls = <<>>
    /\ trace = <<Call("check_dependencies")>>

(***************************************************************************)
(* main(): what the process exit status becomes.                           *)
(***************************************************************************)
\* A main that forgets sys.exit(1) after a failed run.
main_status_noexit(success) == 0

\* main, lines 713-719: run() returned `success`.
main_status(success) == IF success THEN 0 ELSE 1

\* main, lines 721-726: exception e left run().  SystemExit is caught by
\* neither clause and ends the process with its own code.
main_except(e) ==
    IF Catches({"KeyboardInterrupt"}, e) THEN 0
    ELSE IF Catches({"Exception"}, e) THEN 1
    ELSE e.code

\* The locals of a finished display_menu call are gone.
CloseMenu ==
    /\ items' = <<>>
    /\ current_index' = 0

\* The process ends with status n.
Exit(n) ==
    /\ pc' = "exited"
    /\ exitStatus' = n

(***************************************************************************)
(* Menu input.                                                             *)
(***************************************************************************)
\* Raw mode: one keystroke (an ESC sequence counts as one), or an interrupt
\* signal delivered outside the raw window.
Keys == {"UP", "DOWN", "ENTER_CR", "ENTER_LF", "q", "CTRL_C", "Q", "x"}

RawInputs == [kind : {"key"}, text : Keys] \cup {[kind |-> "interrupt", text |-> ""]}

\* Fallback mode: one line read by input(), or input() raising.
Lines == {"q", "Q", " q ", "abc", "", "0", "1", "2", " 2 ", "3", "4", "5", "6", "-1"}

LineInputs ==
    [kind : {"line"}, text : Lines]
        \cup {[kind |-> "interrupt", text |-> ""], [kind |-> "eof", text |-> ""]}

\* str.strip()
Strip(s) ==
    CASE s = " q " -> "q"
      [] s = " 2 " -> "2"
      [] OTHER     -> s

\* str.lower() of an input line
LowerLine(s) == IF s = "Q" THEN "q" ELSE s

\* int(s): ok is FALSE where Python raises ValueError.
ParseInt(s) ==
    CASE s = "0"  -> [ok |-> TRUE, val |-> 0]
      [] s = "1"  -> [ok |-> TRUE, val |-> 1]
      [] s = "2"  -> [ok |-> TRUE, val |-> 2]
      [] s = "3"  -> [ok |-> TRUE, val |-> 3]
      [] s = "4"  -> [ok |-> TRUE, val |-> 4]
      [] s = "5"  -> [ok |-> TRUE, val |-> 5]
      [] s = "6"  -> [ok |-> TRUE, val |-> 6]
      [] s = "-1" -> [ok |-> TRUE, val |-> -1]
      [] OTHER    -> [ok |-> FALSE, val |-> 0]

\* In "notty" mode the menu fails before it reads anything.
NoInput == {[kind |-> "none", text |-> ""]}

Inputs(mode) ==
    IF mode = "raw" THEN RawInputs
    ELSE IF mode = "fallback" THEN LineInputs
    ELSE NoInput

\* What one pass of a menu loop does: the loop goes on with index i, the
\* menu returns i, or exception e leaves the menu (after the menu itself
\* caught an exception of class c).
Stay(i) == [kind |-> "stay", idx |-> i, exc |-> Raise(None), caught |-> None]

Chosen(i) == [kind |-> "return", idx |-> i, exc |-> Raise(None), caught |-> None]

Raised(e) == [kind |-> "raise", idx |-> 0, exc |-> e, caught |-> None]

RaisedAfter(c, e) == [kind |-> "raise", idx |-> 0, exc |-> e, caught |-> c]

\* Lines 73 and 407 in "notty" mode: the menu raises before reading.
menu_notty == Raised(Raise("termios.error"))

\* The events of an exception caught inside the menu.
CaughtEvents(fn, r) == IF r.caught = None THEN <<>> ELSE <<Raises(fn, Raise(r.caught))>>

\* A raw-mode pass whose arrows stop at the ends of the list.
display_menu_raw_clamped(its, idx, in) ==
    IF in.kind = "interrupt" THEN Raised(Raise("KeyboardInterrupt"))
    ELSE IF in.text = "UP" THEN Stay(IF idx > 0 THEN idx - 1 ELSE idx)
    ELSE IF in.text = "DOWN" THEN Stay(IF idx + 1 < Len(its) THEN idx + 1 ELSE idx)
    ELSE IF in.text \in {"ENTER_CR", "ENTER_LF"} THEN Chosen(idx)
    ELSE IF in.text \in {"q", "CTRL_C"} THEN Raised(SysExit(0))
    ELSE Stay(idx)

\* MenuSelector.display_menu, lines 68-93: one pass of the loop in raw mode.
display_menu_raw(its, idx, in) ==
    IF in.kind = "interrupt" THEN Raised(Raise("KeyboardInterrupt"))
    ELSE IF in.text = "UP" THEN Stay((idx - 1) % Len(its))
    ELSE IF in.text = "DOWN" THEN Stay((idx + 1) % Len(its))
    ELSE IF in.text \in {"ENTER_CR", "ENTER_LF"} THEN Chosen(idx)
    ELSE IF in.text \in {"q", "CTRL_C"} THEN Raised(SysExit(0))
    ELSE Stay(idx)

\* A fallback pass that takes a number past the end as the last option.
display_menu_fallback_clamped(its, idx, in) ==
    IF in.kind = "interrupt" THEN RaisedAfter("KeyboardInterrupt", SysExit(0))
    ELSE IF in.kind = "eof" THEN Raised(Raise("EOFError"))
    ELSE LET choice == Strip(in.text)
             n      == ParseInt(choice)
         IN  IF LowerLine(choice) = "q" THEN Raised(SysExit(0))
             ELSE IF ~n.ok THEN Stay(idx)
             ELSE IF 0 <= n.val - 1 /\ n.val - 1 < Len(its) THEN Chosen(n.val - 1)
             ELSE IF n.val - 1 >= Len(its) THEN Chosen(Len(its) - 1)
             ELSE Stay(idx)

\* MenuSelector.display_menu, lines 95-115: one pass of the fallback loop.
display_menu_fallback(its, idx, in) ==
    IF in.kind = "interrupt" THEN RaisedAfter("KeyboardInterrupt", SysExit(0))
    ELSE IF in.kind = "eof" THEN Raised(Raise("EOFError"))
    ELSE LET choice == Strip(in.text)
             n      == ParseInt(choice)
         IN  IF LowerLine(choice) = "q" THEN Raised(SysExit(0))
             ELSE IF ~n.ok THEN Stay(idx)
             ELSE IF 0 <= n.val - 1 /\ n.val - 1 < Len(its) THEN Chosen(n.val - 1)
             ELSE Stay(idx)

\* MenuSelector.display_menu: one pass, in the mode the terminal allows.
display_menu(its, idx, mode, in) ==
    IF mode = "raw" THEN display_menu_raw(its, idx, in)
    ELSE IF mode = "fallback" THEN display_menu_fallback(its, idx, in)
    ELSE menu_notty

(***************************************************************************)
(* run(): how a step's outcome reaches main().                             *)
(***************************************************************************)
\* In the three operators below `pre` holds the events that came first in
\* the same step: the exceptions raised and caught inside it.

\* Step fn returns False, and so does run(), to main (lines 673-693 and
\* 713-719); or the last step is done and run() returns True (line 707).
RunReturns(pre, fn, success) ==
    /\ Exit(main_status(success))
    /\ trace' = trace \o pre \o <<Return(fn, IF success THEN "True" ELSE "False")>>

\* Exception e leaves step fn and run() uncaught and reaches main (721-726).
RunRaises(pre, fn, e) ==
    /\ Exit(main_except(e))
    /\ trace' = trace \o pre \o <<Raises(fn, e)>>

\* A controller that runs the step fn again once it has returned.
StepDone_again(pre, fn, val, next) ==
    /\ pc' = fn
    /\ exitStatus' = exitStatus
    /\ trace' = trace \o pre \o <<Return(fn, val), Call(fn)>>

\* Step fn returned val and run() calls the step `next`.
StepDone(pre, fn, val, next) ==
    /\ pc' = next
    /\ exitStatus' = exitStatus
    /\ trace' = trace \o pre \o <<Return(fn, val), Call(next)>>

(***************************************************************************)
(* check_dependencies, ensure_working_directory (lines 17-33, 127-131).    *)
(***************************************************************************)
\* pip install runs with check=True and may fail; the user may interrupt.
DependencyOutcomes == {"ok", "CalledProcessError", "KeyboardInterrupt"}

CheckDependencies ==
    /\ pc = "check_dependencies"
    /\ \E o \in DependencyOutcomes :
          IF o = "ok"
          THEN StepDone(<<>>, "check_dependencies", None, "ensure_working_directory")
          ELSE RunRaises(<<>>, "check_dependencies", Raise(o))
    /\ UNCHANGED <<terminal, menuVars, probeVars, devVars, fwVars, resVars, flashVars>>

WorkdirOutcomes == {"ok", "OSError", "KeyboardInterrupt"}

EnsureWorkingDirectory ==
    /\ pc = "ensure_working_directory"
    /\ \E o \in WorkdirOutcomes :
          IF o = "ok"
          THEN StepDone(<<>>, "ensure_working_directory", None, "check_conda_environment")
          ELSE RunRaises(<<>>, "ensure_working_directory", Raise(o))
    /\ UNCHANGED <<terminal, menuVars, probeVars, devVars, fwVars, resVars, flashVars>>

(***************************************************************************)
(* check_conda_environment (lines 133-177) and run lines 672-674.          *)
(***************************************************************************)
\* Values of CONDA_DEFAULT_ENV; "" stands for unset.
CondaEnvs == {"", "base", "esp32-dev"}

CondaOptions ==
    <<"Yes, I'm already in a conda environment", "No, I need to set up conda first">>

\* Lines 140-169: in an environment the step returns True at once, else the
\* yes/no menu opens.
CheckCondaEnvironment ==
    /\ pc = "check_conda_environment"
    /\ \E conda_env \in CondaEnvs :
          IF conda_env # "" /\ conda_env # "base"
          THEN /\ StepDone(<<>>, "check_conda_environment", "True", "detect_esp32_devices")
               /\ UNCHANGED menuVars
          ELSE /\ pc' = "conda_menu"
               /\ items' = CondaOptions
               /\ current_index' = 0
               /\ UNCHANGED <<exitStatus, trace>>
    /\ UNCHANGED <<terminal, probeVars, devVars, fwVars, resVars, flashVars>>

\* Lines 171-177: the value check_conda_environment returns for an index.
conda_result(selected_index) == selected_index = 0

\* Lines 166-177 and run 673-674: one input at the yes/no menu.
CondaMenu ==
    /\ pc = "conda_menu"
    /\ \E in \in Inputs(terminal) :
          LET r == display_menu(items, current_index, terminal, in) IN
          CASE r.kind = "stay" ->
                  /\ current_index' = r.idx
                  /\ UNCHANGED <<pc, exitStatus, items, trace>>
            [] r.kind = "return" ->
                  /\ CloseMenu
                  /\ IF conda_result(r.idx)
                     THEN StepDone(<<>>, "check_conda_environment", "True", "detect_esp32_devices")
                     ELSE RunReturns(<<>>, "check_conda_environment", FALSE)
            [] r.kind = "raise" ->
                  /\ RunRaises(CaughtEvents("check_conda_environment", r), "check_conda_environment", r.exc)
                  /\ CloseMenu
    /\ UNCHANGED <<terminal, probeVars, devVars, fwVars, resVars, flashVars>>

(***************************************************************************)
(* detect_esp32_devices (lines 179-269) and run lines 676-678.             *)
(***************************************************************************)
PortNames ==
    {"/dev/tty.usbmodem101", "/dev/tty.usbserial-0001", "/dev/tty.Bluetooth-Incoming-Port"}

\* The lists glob may return: up to MaxPorts distinct port names, any order.
PortLists ==
    UNION {{ps \in [1..n -> PortNames] : \A i, j \in 1..n : i # j => ps[i] # ps[j]}
           : n \in 0..MaxPorts}

\* Line 194: the port is skipped without being probed.
skip_port(port) ==
    /\ \E skip \in {"bluetooth", "debug"} : InLower(skip, port)
    /\ ~InLower("usbmodem", port)

\* What `esptool chip-id` may print on success.
ChipOutputs ==
    {"Chip is ESP32-C3 (revision v0.4)", "Chip is ESP32-S3 (QFN56)", "Chip is ESP32-C6FH4",
     "Chip is ESP32-D0WD-V3", "Chip is ESP32-H2", "Detecting chip type... esp32c3",
     "Chip is ESP8266EX"}

\* Outcomes of the chip-id subprocess.run (lines 199-201).
ProbeOutcomes ==
    [kind : {"returned"}, rc : {0}, stdout : ChipOutputs, exc : {None}]
        \cup {[kind |-> "returned", rc |-> 1, stdout |-> "", exc |-> None]}
        \cup [kind : {"raised"}, rc : {0}, stdout : {""},
              exc : {"TimeoutExpired", "FileNotFoundError", "KeyboardInterrupt"}]

\* Lines 206-216: the label shown for an accepted port.
chip_label(stdout) ==
    IF InLower("esp32-c3", stdout) \/ InLower("esp32c3", stdout) THEN "ESP32-C3"
    ELSE IF InLower("esp32-s3", stdout) \/ InLower("esp32s3", stdout) THEN "ESP32-S3"
    ELSE IF InLower("esp32-c6", stdout) \/ InLower("esp32c6", stdout) THEN "ESP32-C6"
    ELSE IF /\ InLower("esp32", stdout)
            /\ ~InLower("esp32-c3", stdout)
            /\ ~InLower("esp32-s3", stdout)
            /\ ~InLower("esp32-c6", stdout) THEN "ESP32"
    ELSE "ESP32 - Unknown variant"

\* Lines 246-253: the model tag parsed back from a label.
model_from_label(model_part) ==
    IF InLower("esp32-c3", model_part) \/ InLower("esp32c3", model_part) THEN "esp32c3"
    ELSE IF InLower("esp32-s3", model_part) \/ InLower("esp32s3", model_part) THEN "esp32s3"
    ELSE IF InLower("esp32-c6", model_part) \/ InLower("esp32c6", model_part) THEN "esp32c6"
    ELSE "esp32"

\* Line 258.
supported_models == {"esp32c3", "esp32s3", "esp32c6", "esp32"}

\* Line 230: the entry appended after the probed devices.
ManualEntryItem == [port |-> "", label |-> "Enter port manually"]

\* The locals of a finished detect_esp32_devices call are gone.
CloseProbe ==
    /\ ports' = <<>>
    /\ portIdx' = 1
    /\ esp32_ports' = <<>>
    /\ device_info' = <<>>

\* Lines 184-190.
DetectStart ==
    /\ pc = "detect_esp32_devices"
    /\ \E ps \in PortLists : ports' = ps
    /\ portIdx' = 1
    /\ esp32_ports' = <<>>
    /\ device_info' = <<>>
    /\ pc' = "probe"
    /\ UNCHANGED <<exitStatus, trace, terminal, menuVars, devVars, fwVars, resVars, flashVars>>

\* Line 218: the handler around the chip-id call.
probe_catches(e) == Catches({"TimeoutExpired", "CalledProcessError"}, e)

\* Lines 192-220: one pass of the loop over the candidate ports.  A candidate
\* excluded by the handler leaves no event in the trace.
ProbePort ==
    /\ pc = "probe"
    /\ portIdx <= Len(ports)
    /\ LET port == ports[portIdx] IN
       IF skip_port(port)
       THEN /\ portIdx' = portIdx + 1
            /\ UNCHANGED <<pc, exitStatus, trace, ports, esp32_ports, device_info>>
       ELSE \E o \in ProbeOutcomes :
              IF o.kind = "returned"
              THEN /\ portIdx' = portIdx + 1
                   /\ IF o.rc = 0
                      THEN /\ esp32_ports' = Append(esp32_ports, port)
                           /\ device_info' =
                                Append(device_info,
                                       [port |-> port, label |-> chip_label(o.stdout)])
                      ELSE UNCHANGED <<esp32_ports, device_info>>
                   /\ UNCHANGED <<pc, exitStatus, trace, ports>>
              ELSE IF probe_catches(Raise(o.exc))
              THEN /\ portIdx' = portIdx + 1
                   /\ UNCHANGED <<pc, exitStatus, trace, ports, esp32_ports, device_info>>
              ELSE /\ RunRaises(<<>>, "detect_esp32_devices", Raise(o.exc))
                   /\ CloseProbe
    /\ UNCHANGED <<terminal, menuVars, devVars, fwVars, resVars, flashVars>>

\* A probe that never reports "no device".
no_devices_never(accepted) == FALSE

\* Line 222: `if not esp32_ports`.
no_devices(accepted) == accepted = <<>>

\* A device list that puts the manual entry first.
with_manual_entry_first(info) == <<ManualEntryItem>> \o info

\* Line 230: device_info.append("Enter port manually").
with_manual_entry(info) == Append(info, ManualEntryItem)

\* Lines 222-235: after the loop, fail on no device or open the device menu.
ProbeDone ==
    /\ pc = "probe"
    /\ portIdx > Len(ports)
    /\ IF no_devices(esp32_ports)
       THEN /\ RunReturns(<<>>, "detect_esp32_devices", FALSE)
            /\ CloseProbe
            /\ UNCHANGED menuVars
       ELSE /\ device_info' = with_manual_entry(device_info)
            /\ items' = with_manual_entry(device_info)
            /\ current_index' = 0
            /\ pc' = "device_menu"
            /\ UNCHANGED <<exitStatus, trace, ports, portIdx, esp32_ports>>
    /\ UNCHANGED <<terminal, devVars, fwVars, resVars, flashVars>>

\* A support check that lets every model through.
is_supported_any(model) == TRUE

\* Line 259: `self.device_model not in supported_models`, negated.
is_supported(model) == model \in supported_models

\* Lines 255-269 and run 677-678: the support check that ends the step.
DeviceChosen(port, model) ==
    /\ CloseProbe
    /\ CloseMenu
    /\ device_port' = port
    /\ device_model' = model
    /\ IF is_supported(model)
       THEN StepDone(<<>>, "detect_esp32_devices", "True", "detect_current_firmware")
       ELSE RunReturns(<<>>, "detect_esp32_devices", FALSE)

\* Lines 232-253: one input at the device menu.
DeviceMenu ==
    /\ pc = "device_menu"
    /\ \E in \in Inputs(terminal) :
          LET r == display_menu(items, current_index, terminal, in) IN
          CASE r.kind = "stay" ->
                  /\ current_index' = r.idx
                  /\ UNCHANGED <<pc, exitStatus, trace, items, probeVars, devVars>>
            [] r.kind = "return" ->
                  IF r.idx = Len(device_info) - 1
                  THEN /\ pc' = "manual_entry"
                       /\ CloseMenu
                       /\ UNCHANGED <<exitStatus, trace, probeVars, devVars>>
                  ELSE LET selected_device == device_info[r.idx + 1] IN
                       DeviceChosen(selected_device.port,
                                    model_from_label(selected_device.label))
            [] r.kind = "raise" ->
                  /\ RunRaises(CaughtEvents("detect_esp32_devices", r), "detect_esp32_devices", r.exc)
                  /\ CloseMenu
                  /\ CloseProbe
                  /\ UNCHANGED devVars
    /\ UNCHANGED <<terminal, fwVars, resVars, flashVars>>

\* What the user may type for the port and for the model (lines 239-240).
TypedPorts == {"/dev/tty.manual"}

TypedModels == {"esp32", "ESP32C3", " esp32s3 ", "esp32c6", "esp8266", "ESP32-C3", ""}

\* input(...).strip().lower() of a typed model.
typed_model(s) ==
    CASE s = "ESP32C3"   -> "esp32c3"
      [] s = " esp32s3 " -> "esp32s3"
      [] s = "ESP32-C3"  -> "esp32-c3"
      [] OTHER           -> s

\* Line 239: the first input() of manual entry; the port is assigned before
\* the model is asked for.
ManualEntry ==
    /\ pc = "manual_entry"
    /\ \/ \E p \in TypedPorts :
             /\ device_port' = p
             /\ pc' = "manual_model"
             /\ UNCHANGED <<exitStatus, trace, menuVars, probeVars, device_model>>
       \/ \E e \in {"KeyboardInterrupt", "EOFError"} :
             /\ RunRaises(<<>>, "detect_esp32_devices", Raise(e))
             /\ CloseProbe
             /\ CloseMenu
             /\ UNCHANGED devVars
    /\ UNCHANGED <<terminal, fwVars, resVars, flashVars>>

\* Lines 240 and 255-269: the second input() of manual entry, then the
\* support check; an exception here leaves the port typed before in place.
ManualModel ==
    /\ pc = "manual_model"
    /\ \/ \E m \in TypedModels : DeviceChosen(device_port, typed_model(m))
       \/ \E e \in {"KeyboardInterrupt", "EOFError"} :
             /\ RunRaises(<<>>, "detect_esp32_devices", Raise(e))
             /\ CloseProbe
             /\ CloseMenu
             /\ UNCHANGED devVars
    /\ UNCHANGED <<terminal, fwVars, resVars, flashVars>>

(***************************************************************************)
(* detect_current_firmware (lines 271-348) and run line 681.               *)
(***************************************************************************)
\* What the five write/read rounds may accumulate, cut at '\n' as line 318
\* does.  The empty transcript splits into one empty line.
Transcripts ==
    {<<"MicroPython v1.26.1 on esp32c3">>,
     <<">>> print(sys.version)", "3.4.0; MicroPython v1.26.1 on 2025-09-11\r",
       ">>> print(sys.implementation)", "(name='micropython', version=(1, 26, 1))",
       ">>> print(sys.platform)", "esp32\r">>,
     <<"ESP-IDF v5.1 2nd stage bootloader">>,
     <<"Arduino sketch running">>,
     <<"Arduino on ESP32">>,
     <<"Arduino on ESP32", "MicroPython v1.26.1 on esp32c3">>,
     <<"">>}

\* line.strip()
StripLine(line) ==
    CASE line = "3.4.0; MicroPython v1.26.1 on 2025-09-11\r" -> "3.4.0; MicroPython v1.26.1 on 2025-09-11"
      [] line = "esp32\r" -> "esp32"
      [] OTHER -> line

\* `needle in firmware_info['raw_output'].lower()`; no needle holds a '\n',
\* so it occurs in the text iff it occurs in one of its lines.
InOutput(needle, lines) == \E i \in 1..Len(lines) : InLower(needle, lines[i])

\* Lines 319-325: the loop over the lines, a later match overwriting an
\* earlier one.
RECURSIVE extract_fields(_, _)
extract_fields(lines, info) ==
    IF lines = <<>> THEN info
    ELSE LET line == Head(lines)
             next ==
                 IF InLower("micropython", line) /\ InLower("version", line)
                 THEN [info EXCEPT !.version = StripLine(line)]
                 ELSE IF InLower("implementation", line)
                 THEN [info EXCEPT !.implementation = StripLine(line)]
                 ELSE IF InLower("platform", line)
                 THEN [info EXCEPT !.platform = StripLine(line)]
                 ELSE info
         IN  extract_fields(Tail(lines), next)

\* A classifier that looks for the ESP32 signatures first.
classify_firmware_esp32_first(lines) ==
    LET info == [is_micropython |-> FALSE, version |-> "Unknown",
                 implementation |-> "Unknown", platform |-> "Unknown",
                 raw_output |-> lines]
    IN  IF InOutput("esp32", lines) \/ InOutput("esp-idf", lines)
        THEN [info EXCEPT !.version = "ESP-IDF or other ESP32 firmware"]
        ELSE IF InOutput("micropython", lines)
        THEN extract_fields(lines, [info EXCEPT !.is_micropython = TRUE])
        ELSE IF InOutput("arduino", lines)
        THEN [info EXCEPT !.version = "Arduino firmware"]
        ELSE [info EXCEPT !.version = "Unknown firmware or no response"]

\* Lines 295-338: the descriptor for a transcript.
classify_firmware(lines) ==
    LET info == [is_micropython |-> FALSE, version |-> "Unknown",
                 implementation |-> "Unknown", platform |-> "Unknown",
                 raw_output |-> lines]
    IN  IF InOutput("micropython", lines)
        THEN extract_fields(lines, [info EXCEPT !.is_micropython = TRUE])
        ELSE IF InOutput("esp32", lines) \/ InOutput("esp-idf", lines)
        THEN [info EXCEPT !.version = "ESP-IDF or other ESP32 firmware"]
        ELSE IF InOutput("arduino", lines)
        THEN [info EXCEPT !.version = "Arduino firmware"]
        ELSE [info EXCEPT !.version = "Unknown firmware or no response"]

\* A handler that takes transport errors only.
inspect_catches_oserror(e) == Catches({"OSError"}, e)

\* Line 340: the handler of detect_current_firmware.
inspect_catches(e) == Catches({"Exception"}, e)

\* Lines 340-348: the descriptor when exception e was caught.
detection_failed(e) ==
    [is_micropython |-> FALSE, version |-> "Detection failed",
     implementation |-> "Unknown", platform |-> "Unknown",
     raw_output |-> <<"Error: ", e.cls>>]

\* Lines 352-357: confirm_firmware_overwrite starts.
ConfirmOptions ==
    <<"Yes, proceed with flashing MicroPython", "No, keep the current firmware">>

\* detect_current_firmware returned `info`; run goes on to the gate.
InspectReturns(pre, info) ==
    /\ firmware_info' = info
    /\ items' = ConfirmOptions
    /\ current_index' = 0
    /\ StepDone(pre, "detect_current_firmware", info.version, "confirm_firmware_overwrite")

\* import serial; serial.Serial(...) (lines 277-280).
OpenOutcomes == {"ok", "ImportError", "SerialException", "KeyboardInterrupt"}

\* Lines 275-284 with the handler of lines 340-348.
InspectOpen ==
    /\ pc = "detect_current_firmware"
    /\ \E o \in OpenOutcomes :
          IF o = "ok"
          THEN /\ serialOpen' = TRUE
               /\ pc' = "inspect_io"
               /\ UNCHANGED <<exitStatus, trace, firmware_info, menuVars>>
          ELSE IF inspect_catches(Raise(o))
          THEN /\ InspectReturns(<<Raises("detect_current_firmware", Raise(o))>>,
                                 detection_failed(Raise(o)))
               /\ UNCHANGED serialOpen
          ELSE /\ RunRaises(<<>>, "detect_current_firmware", Raise(o))
               /\ UNCHANGED <<fwVars, menuVars>>
    /\ UNCHANGED <<terminal, probeVars, devVars, resVars, flashVars>>

\* The write/read rounds (lines 303-307): a transcript, or an exception.
TalkOutcomes ==
    [kind : {"read"}, lines : Transcripts, exc : {None}]
        \cup [kind : {"raised"}, lines : {<<>>}, exc : {"SerialException", "KeyboardInterrupt"}]

\* Lines 303-338 with the handler of lines 340-348.  ser.close() (line 309)
\* runs only when every round succeeded.  When a round raises, the handler
\* returns without closing: the Serial object is left to the interpreter,
\* whose finalizer may close the port when the frame is dropped (CPython
\* reference counting) or leave it open (no finalizer run), so both outcomes
\* are possible.
InspectTalk ==
    /\ pc = "inspect_io"
    /\ \E o \in TalkOutcomes :
          IF o.kind = "read"
          THEN /\ serialOpen' = FALSE
               /\ InspectReturns(<<>>, classify_firmware(o.lines))
          ELSE IF inspect_catches(Raise(o.exc))
          THEN /\ InspectReturns(<<Raises("detect_current_firmware", Raise(o.exc))>>,
                                 detection_failed(Raise(o.exc)))
               /\ serialOpen' \in BOOLEAN
          ELSE /\ RunRaises(<<>>, "detect_current_firmware", Raise(o.exc))
               /\ UNCHANGED <<fwVars, menuVars>>
    /\ UNCHANGED <<terminal, probeVars, devVars, resVars, flashVars>>

\* A raw-mode pass of the gate whose arrows do not wrap around.
confirm_raw_nowrap(opts, idx, in) ==
    IF in.kind = "interrupt" THEN Raised(Raise("KeyboardInterrupt"))
    ELSE IF in.text = "UP" THEN Stay(idx - 1)
    ELSE IF in.text = "DOWN" THEN Stay(idx + 1)
    ELSE IF in.text \in {"ENTER_CR", "ENTER_LF"} THEN Chosen(idx)
    ELSE IF in.text \in {"q", "CTRL_C"} THEN Raised(SysExit(0))
    ELSE Stay(idx)

(***************************************************************************)
(* confirm_firmware_overwrite (lines 350-454) and run lines 684-685.       *)
(***************************************************************************)
\* Lines 402-431: one pass of the loop in raw mode.  "return" carries the
\* value of `choice`.
confirm_raw(opts, idx, in) ==
    IF in.kind = "interrupt" THEN Raised(Raise("KeyboardInterrupt"))
    ELSE IF in.text = "UP" THEN Stay((idx - 1) % Len(opts))
    ELSE IF in.text = "DOWN" THEN Stay((idx + 1) % Len(opts))
    ELSE IF in.text \in {"ENTER_CR", "ENTER_LF"} THEN Chosen(idx)
    ELSE IF in.text \in {"q", "CTRL_C"} THEN Raised(SysExit(0))
    ELSE Stay(idx)

\* Lines 433-448: one pass of the loop in fallback mode.
confirm_fallback(opts, idx, in) ==
    IF in.kind = "interrupt" THEN RaisedAfter("KeyboardInterrupt", SysExit(0))
    ELSE IF in.kind = "eof" THEN Raised(Raise("EOFError"))
    ELSE LET choice_input == Strip(in.text)
             n            == ParseInt(choice_input)
         IN  IF LowerLine(choice_input) = "q" THEN Raised(SysExit(0))
             ELSE IF ~n.ok THEN Stay(idx)
             ELSE IF n.val - 1 < 0 \/ n.val - 1 >= Len(opts) THEN Stay(idx)
             ELSE Chosen(n.val - 1)

confirm_step(opts, idx, mode, in) ==
    IF mode = "raw" THEN confirm_raw(opts, idx, in)
    ELSE IF mode = "fallback" THEN confirm_fallback(opts, idx, in)
    ELSE menu_notty

\* A gate that proceeds on the second option.
confirm_result_swapped(choice) == choice = 1

\* Lines 450-454: the value returned for `choice`.
confirm_result(choice) == choice = 0

\* One input at the confirmation gate, and run lines 684-685 on its return.
ConfirmMenu ==
    /\ pc = "confirm_firmware_overwrite"
    /\ \E in \in Inputs(terminal) :
          LET r == confirm_step(items, current_index, terminal, in) IN
          CASE r.kind = "stay" ->
                  /\ current_index' = r.idx
                  /\ UNCHANGED <<pc, exitStatus, trace, items>>
            [] r.kind = "return" ->
                  /\ CloseMenu
                  /\ IF confirm_result(r.idx)
                     THEN StepDone(<<>>, "confirm_firmware_overwrite", "True", "get_firmware_versions")
                     ELSE RunReturns(<<>>, "confirm_firmware_overwrite", FALSE)
            [] r.kind = "raise" ->
                  /\ RunRaises(CaughtEvents("confirm_firmware_overwrite", r), "confirm_firmware_overwrite", r.exc)
                  /\ CloseMenu
    /\ UNCHANGED <<terminal, probeVars, devVars, fwVars, resVars, flashVars>>

(***************************************************************************)
(* get_firmware_versions (lines 456-569) and run lines 688-689.            *)
(***************************************************************************)
Option(name, tag) == [name |-> name, tag |-> tag]

\* Line 490.
LocalFileOption == Option("Use local firmware file", "")

\* Lines 464-490: the menu for a device model; an entry "<name> (<tag>)" is
\* kept as its two parts.
firmware_options(model) ==
    LET stem == IF model = "esp32c3" THEN "ESP32_GENERIC_C3"
                ELSE IF model = "esp32s3" THEN "ESP32_GENERIC_S3"
                ELSE IF model = "esp32c6" THEN "ESP32_GENERIC_C6"
                ELSE "ESP32_GENERIC"
    IN  <<Option(stem \o "-20250911-v1.26.1.bin", "Latest Stable"),
          Option(stem \o "-20241220-v1.26.1.bin", "Previous Stable"),
          Option(stem \o "-20250911-v1.26.1.bin", "Development"),
          LocalFileOption>>

\* Line 509: firmware_options[selected_index].split(' (')[0]
firmware_name(option) == option.name

\* A primary locator that depends on what the working directory holds.
firmware_url_by_directory(model, name) ==
    [base |-> IF workdir = <<>>
              THEN "https://micropython.org/resources/firmware/"
              ELSE "https://github.com/micropython/micropython/releases/download/v1.26.1/",
     name |-> name]

\* Lines 512-519: the primary locator.
firmware_url(model, name) ==
    [base |-> "https://micropython.org/resources/firmware/", name |-> name]

\* Line 539: the alternate locator.
alt_url(name) ==
    [base |-> "https://github.com/micropython/micropython/releases/download/v1.26.1/",
     name |-> name]

\* *.bin files that may lie in the working directory.
BinNames == {"firmware.bin", "esp32c3-backup.bin", "esp32-old.bin"}

\* Directory listings: up to MaxBinFiles distinct files, any order.
BinLists ==
    UNION {{fs \in [1..n -> BinNames] : \A i, j \in 1..n : i # j => fs[i] # fs[j]}
           : n \in 0..MaxBinFiles}

\* Does file f match the glob pattern "<prefix>*.bin"?
glob_match(prefix, f) ==
    LET a == Atoms(f)
        q == Atoms(prefix)
    IN  /\ Len(a) >= Len(q) + 1
        /\ SubSeq(a, 1, Len(q)) = q
        /\ a[Len(a)] = ".bin"

\* Path('.').glob(prefix + "*.bin") over a directory listing.
glob_bin(prefix, dir) == SelectSeq(dir, LAMBDA f : glob_match(prefix, f))

\* The listing dir with name put in after its first k entries.
insert_at(dir, k, name) ==
    SubSeq(dir, 1, k) \o <<name>> \o SubSeq(dir, k + 1, Len(dir))

\* open(name, 'wb') creates the file if the directory lacks it.  Where a
\* later listing shows the new name is the file system's choice, so the
\* result is the set of listings the directory may give afterwards.
write_file(dir, name) ==
    IF \E k \in 1..Len(dir) : dir[k] = name THEN {dir}
    ELSE {insert_at(dir, k, name) : k \in 0..Len(dir)}

\* Lines 492-495: the options are built and the firmware menu opens.
GetFirmwareStart ==
    /\ pc = "get_firmware_versions"
    /\ \E w \in BinLists : workdir' = w
    /\ items' = firmware_options(device_model)
    /\ current_index' = 0
    /\ pc' = "firmware_menu"
    /\ UNCHANGED <<exitStatus, trace, terminal, probeVars, devVars, fwVars, firmware_file,
                   fetched, flashVars>>

\* get_firmware_versions returns `ok` to run (lines 688-689).
ResolveReturns(pre, ok) ==
    /\ CloseMenu
    /\ IF ok
       THEN StepDone(pre, "get_firmware_versions", "True", "flash_micropython")
       ELSE RunReturns(pre, "get_firmware_versions", FALSE)

\* A bare `except:` in place of `except Exception`.
resolve_catches_bare(e) == Catches({"BaseException"}, e)

\* Line 557: the outer handler of get_firmware_versions.
resolve_catches(e) == Catches({"Exception"}, e)

\* Lines 534 and 550: the handlers around the two downloads.
fetch_catches(e) == Catches({"RequestException"}, e)

\* Lines 557-569: exception e was raised in the try block (after the events
\* pre) with firmware_file holding `file` and the directory listing `dir`;
\* the outer handler recovers with a model-prefixed local file, and what it
\* does not catch leaves run.
ResolveRaises(pre, e, file, dir) ==
    LET ev == pre \o <<Raises("get_firmware_versions", e)>> IN
    IF resolve_catches(e)
    THEN LET local_files == glob_bin(device_model, dir) IN
         IF local_files # <<>>
         THEN /\ firmware_file' = local_files[1]
              /\ ResolveReturns(ev, TRUE)
         ELSE /\ firmware_file' = file
              /\ ResolveReturns(ev, FALSE)
    ELSE /\ firmware_file' = file
         /\ CloseMenu
         /\ RunRaises(pre, "get_firmware_versions", e)

\* Lines 492-509: one input at the firmware menu.
FirmwareMenu ==
    /\ pc = "firmware_menu"
    /\ \E in \in Inputs(terminal) :
          LET r == display_menu(items, current_index, terminal, in) IN
          CASE r.kind = "stay" ->
                  /\ current_index' = r.idx
                  /\ UNCHANGED <<pc, exitStatus, trace, items, firmware_file>>
            [] r.kind = "return" ->
                  IF r.idx = Len(firmware_options(device_model)) - 1
                  THEN LET local_options == glob_bin("", workdir) IN
                       IF local_options # <<>>
                       THEN /\ items' = local_options
                            /\ current_index' = 0
                            /\ pc' = "local_menu"
                            /\ UNCHANGED <<exitStatus, trace, firmware_file>>
                       ELSE /\ ResolveReturns(<<>>, FALSE)
                            /\ UNCHANGED firmware_file
                  ELSE /\ current_index' = r.idx
                       /\ pc' = "download"
                       /\ UNCHANGED <<exitStatus, trace, items, firmware_file>>
            [] r.kind = "raise" ->
                  ResolveRaises(CaughtEvents("get_firmware_versions", r), r.exc, firmware_file, workdir)
    /\ UNCHANGED <<terminal, probeVars, devVars, fwVars, workdir, fetched, flashVars>>

\* Lines 499-503: one input at the local file menu.
LocalMenu ==
    /\ pc = "local_menu"
    /\ \E in \in Inputs(terminal) :
          LET r == display_menu(items, current_index, terminal, in) IN
          CASE r.kind = "stay" ->
                  /\ current_index' = r.idx
                  /\ UNCHANGED <<pc, exitStatus, trace, items, firmware_file>>
            [] r.kind = "return" ->
                  /\ firmware_file' = items[r.idx + 1]
                  /\ ResolveReturns(<<>>, TRUE)
            [] r.kind = "raise" ->
                  ResolveRaises(CaughtEvents("get_firmware_versions", r), r.exc, firmware_file, workdir)
    /\ UNCHANGED <<terminal, probeVars, devVars, fwVars, workdir, fetched, flashVars>>

\* One download (lines 525-530, 541-546) goes through three stages, and an
\* exception may end it in each:
\*   "get"    requests.get and raise_for_status: a RequestException, or an
\*            interrupt; nothing has been assigned;
\*   "open"   after firmware_file is assigned (528, 544), open(..., 'wb'):
\*            a PermissionError, or an interrupt; no file has been created;
\*   "write"  after the file was created, f.write: an OSError (disk full),
\*            or an interrupt;
\*   "done"   the file is written.
FetchOutcomes ==
    {[stage |-> "done", exc |-> None]}
        \cup [stage : {"get"}, exc : {"RequestException", "KeyboardInterrupt"}]
        \cup [stage : {"open"}, exc : {"PermissionError", "KeyboardInterrupt"}]
        \cup [stage : {"write"}, exc : {"OSError", "KeyboardInterrupt"}]

\* firmware_file is assigned (lines 528, 544) once the fetch itself is done.
fetch_assigns(o) == o.stage # "get"

\* The file exists once open() has returned (lines 529, 545).
fetch_creates(o) == o.stage \in {"write", "done"}

\* Lines 509-535: the primary download.
Download ==
    /\ pc = "download"
    /\ LET name == firmware_name(firmware_options(device_model)[current_index + 1]) IN
       /\ fetched' = Append(fetched, firmware_url(device_model, name))
       /\ \E o \in FetchOutcomes :
            /\ workdir' \in (IF fetch_creates(o) THEN write_file(workdir, name) ELSE {workdir})
            /\ IF o.stage = "done"
               THEN /\ firmware_file' = name
                    /\ ResolveReturns(<<>>, TRUE)
               ELSE IF o.stage = "get" /\ fetch_catches(Raise(o.exc))
               THEN /\ pc' = "download_alt"
                    /\ trace' = Append(trace, Raises("get_firmware_versions", Raise(o.exc)))
                    /\ UNCHANGED <<exitStatus, menuVars, firmware_file>>
               ELSE ResolveRaises(<<>>, Raise(o.exc),
                                  IF fetch_assigns(o) THEN name ELSE firmware_file,
                                  workdir')
    /\ UNCHANGED <<terminal, probeVars, devVars, fwVars, flashVars>>

\* Lines 536-553: the alternate download, in the handler of the first.
DownloadAlt ==
    /\ pc = "download_alt"
    /\ LET name == firmware_name(firmware_options(device_model)[current_index + 1]) IN
       /\ fetched' = Append(fetched, alt_url(name))
       /\ \E o \in FetchOutcomes :
            /\ workdir' \in (IF fetch_creates(o) THEN write_file(workdir, name) ELSE {workdir})
            /\ IF o.stage = "done"
               THEN /\ firmware_file' = name
                    /\ ResolveReturns(<<>>, TRUE)
               ELSE IF o.stage = "get" /\ fetch_catches(Raise(o.exc))
               THEN /\ ResolveReturns(<<Raises("get_firmware_versions", Raise(o.exc))>>, FALSE)
                    /\ UNCHANGED firmware_file
               ELSE ResolveRaises(<<>>, Raise(o.exc),
                                  IF fetch_assigns(o) THEN name ELSE firmware_file,
                                  workdir')
    /\ UNCHANGED <<terminal, probeVars, devVars, fwVars, flashVars>>

(***************************************************************************)
(* flash_micropython (lines 571-620) and run lines 692-693.                *)
(***************************************************************************)
\* Outcomes of one subprocess.run of esptool: it returned with an exit
\* code, or subprocess.run raised.
RunOutcomes ==
    [kind : {"returned"}, rc : {0, 1}, exc : {None}]
        \cup [kind : {"raised"}, rc : {0},
              exc : {"TimeoutExpired", "FileNotFoundError", "KeyboardInterrupt"}]

\* Lines 578-582.
erase_cmd(model, port) == <<"esptool", "--chip", model, "--port", port, "erase-flash">>

\* Lines 593-598.
write_cmd(model, port, file) ==
    <<"esptool", "--chip", model, "--port", port, "--baud", "460800",
      "write-flash", "-z", "0x0", file>>

\* Line 606: flash_cmd[4] = '115200' (Python counts from 0, TLA+ from 1).
slow_cmd(cmd) == [cmd EXCEPT ![5] = "115200"]

\* One subprocess.run issued by flash_micropython, with what came of it.
Issued(argv, timeout, o) == [argv |-> argv, timeout |-> timeout, result |-> o]

\* Return-code tests that were left out.
erase_ok_unchecked(rc) == TRUE

write_ok_unchecked(rc) == TRUE

retry_ok_unchecked(rc) == TRUE

\* Lines 585, 601 and 608: the tests of result.returncode.
erase_ok(rc) == rc = 0

write_ok(rc) == rc = 0

retry_ok(rc) == rc = 0

\* flash_micropython returns `ok` to run (lines 692-693).
FlashReturns(pre, ok) ==
    IF ok
    THEN StepDone(pre, "flash_micropython", "True", "test_connection")
    ELSE RunReturns(pre, "flash_micropython", FALSE)

\* A bare `except:` in place of the two handlers.
flash_catches_bare(e) == Catches({"BaseException"}, e)

\* Only the first of the two handlers: other exceptions escape.
flash_catches_timeout_only(e) == Catches({"TimeoutExpired"}, e)

\* Lines 615 and 618: the handlers of flash_micropython.
flash_catches(e) == Catches({"TimeoutExpired"}, e) \/ Catches({"Exception"}, e)

\* Lines 615-620: exception e was raised in the try block; both handlers
\* return False, and what they do not catch leaves run.
FlashRaises(e) ==
    IF flash_catches(e)
    THEN FlashReturns(<<Raises("flash_micropython", e)>>, FALSE)
    ELSE RunRaises(<<>>, "flash_micropython", e)

\* Lines 576-598: the erase call; on success the write command is built.
FlashErase ==
    /\ pc = "flash_micropython"
    /\ \E o \in RunOutcomes :
          /\ calls' = Append(calls, Issued(erase_cmd(device_model, device_port), 30, o))
          /\ IF o.kind = "raised"
             THEN /\ FlashRaises(Raise(o.exc))
                  /\ UNCHANGED flash_cmd
             ELSE IF ~erase_ok(o.rc)
             THEN /\ FlashReturns(<<>>, FALSE)
                  /\ UNCHANGED flash_cmd
             ELSE /\ flash_cmd' = write_cmd(device_model, device_port, firmware_file)
                  /\ pc' = "write_flash"
                  /\ UNCHANGED <<exitStatus, trace>>
    /\ UNCHANGED <<terminal, menuVars, probeVars, devVars, fwVars, resVars>>

\* Lines 600-606: the first write call; a non-zero exit code prepares the retry.
FlashWrite ==
    /\ pc = "write_flash"
    /\ \E o \in RunOutcomes :
          /\ calls' = Append(calls, Issued(flash_cmd, 60, o))
          /\ IF o.kind = "raised"
             THEN /\ FlashRaises(Raise(o.exc))
                  /\ UNCHANGED flash_cmd
             ELSE IF ~write_ok(o.rc)
             THEN /\ flash_cmd' = slow_cmd(flash_cmd)
                  /\ pc' = "write_retry"
                  /\ UNCHANGED <<exitStatus, trace>>
             ELSE /\ FlashReturns(<<>>, TRUE)
                  /\ UNCHANGED flash_cmd
    /\ UNCHANGED <<terminal, menuVars, probeVars, devVars, fwVars, resVars>>

\* Lines 607-613: the second write call.
FlashRetry ==
    /\ pc = "write_retry"
    /\ \E o \in RunOutcomes :
          /\ calls' = Append(calls, Issued(flash_cmd, 120, o))
          /\ IF o.kind = "raised"
             THEN FlashRaises(Raise(o.exc))
             ELSE FlashReturns(<<>>, retry_ok(o.rc))
    /\ UNCHANGED <<terminal, menuVars, probeVars, devVars, fwVars, resVars, flash_cmd>>

(***************************************************************************)
(* test_connection (lines 622-659) and run lines 696-707.                  *)
(***************************************************************************)
\* The smoke test subprocess: it returned (whatever it printed), or
\* subprocess.run raised.
TestOutcomes == {"returned", "TimeoutExpired", "FileNotFoundError", "KeyboardInterrupt"}

\* A handler that takes the timeout of the subprocess only.
test_catches_timeout_only(e) == Catches({"TimeoutExpired"}, e)

\* Line 657: the handler of test_connection.
test_catches(e) == Catches({"Exception"}, e)

\* Lines 626-659; run ignores the value returned (line 696).
TestConnection ==
    /\ pc = "test_connection"
    /\ \E o \in TestOutcomes :
          IF o = "returned"
          THEN StepDone(<<>>, "test_connection", "True", "summary")
          ELSE IF test_catches(Raise(o))
          THEN StepDone(<<Raises("test_connection", Raise(o))>>,
                        "test_connection", "False", "summary")
          ELSE RunRaises(<<>>, "test_connection", Raise(o))
    /\ UNCHANGED <<terminal, menuVars, probeVars, devVars, fwVars, resVars, flashVars>>

\* Lines 698-707 and main 715-716: the summary is printed and run returns True.
Summary ==
    /\ pc = "summary"
    /\ RunReturns(<<>>, "run", TRUE)
    /\ UNCHANGED <<terminal, menuVars, probeVars, devVars, fwVars, resVars, flashVars>>

Next ==
    \/ CheckDependencies
    \/ EnsureWorkingDirectory
    \/ CheckCondaEnvironment
    \/ CondaMenu
    \/ DetectStart
    \/ ProbePort
    \/ ProbeDone
    \/ DeviceMenu
    \/ ManualEntry
    \/ ManualModel
    \/ InspectOpen
    \/ InspectTalk
    \/ ConfirmMenu
    \/ GetFirmwareStart
    \/ FirmwareMenu
    \/ LocalMenu
    \/ Download
    \/ DownloadAlt
    \/ FlashErase
    \/ FlashWrite
    \/ FlashRetry
    \/ TestConnection
    \/ Summary

Spec == Init /\ [][Next]_vars

(***************************************************************************)
(* Observations used by the properties.                                    *)
(***************************************************************************)
\* Event e is in the trace.
Happened(e) == \E k \in 1..Len(trace) : trace[k] = e

\* An exception of class c was raised in some step.
WasRaised(c) == \E k \in 1..Len(trace) : trace[k].ev = "raise" /\ trace[k].val = c

IsErase(c) == c.argv[Len(c.argv)] = "erase-flash"

IsWrite(c) == \E k \in 1..Len(c.argv) : c.argv[k] = "write-flash"

EraseCalls == SelectSeq(calls, IsErase)

WriteCalls == SelectSeq(calls, IsWrite)

\* The argument that follows `flag` in an argument list.
ArgAfter(argv, flag) == argv[(CHOOSE k \in 1..(Len(argv) - 1) : argv[k] = flag) + 1]

Succeeded(c) == c.result.kind = "returned" /\ c.result.rc = 0

Failed(c) == c.result.kind = "returned" /\ c.result.rc # 0

TimedOut(c) == c.result.kind = "raised" /\ c.result.exc = "TimeoutExpired"

FlashTrue == Happened(Return("flash_micropython", "True"))

FlashFalse == Happened(Return("flash_micropython", "False"))

(***************************************************************************)
(* Properties.                                                             *)
(***************************************************************************)

\* C1: when the user declines at the confirmation gate
\* (confirm_firmware_overwrite returns False) the process ends with exit
\* status 0 and neither firmware resolution nor flashing is started.
C1_DeclineIsCleanExit ==
    Happened(Return("confirm_firmware_overwrite", "False")) =>
        /\ pc = "exited"
        /\ exitStatus = 0
        /\ ~Happened(Call("get_firmware_versions"))
        /\ ~Happened(Call("flash_micropython"))

\* C2: when the user answers No at the environment advisory
\* (check_conda_environment returns False) the process ends with exit
\* status 0, not 1.
C2_CondaDeclineIsCleanExit ==
    Happened(Return("check_conda_environment", "False")) =>
        /\ pc = "exited"
        /\ exitStatus = 0

\* C3: after a first write-image call that returned a non-zero exit code,
\* exactly one more write-image call is issued, for the same chip, port and
\* file, at 115200 baud instead of 460800 and with a 120 s timeout instead
\* of 60 s.
C3_RetrySameTarget ==
    LET W == WriteCalls IN
    /\ Len(W) <= 2
    /\ (Len(W) >= 1 /\ Failed(W[1]) /\ pc # "write_retry") => Len(W) = 2
    /\ Len(W) = 2 =>
          /\ ArgAfter(W[2].argv, "--chip") = ArgAfter(W[1].argv, "--chip")
          /\ ArgAfter(W[2].argv, "--port") = ArgAfter(W[1].argv, "--port")
          /\ W[2].argv[Len(W[2].argv)] = W[1].argv[Len(W[1].argv)]
          /\ ArgAfter(W[1].argv, "--baud") = "460800"
          /\ ArgAfter(W[2].argv, "--baud") = "115200"
          /\ W[1].timeout = 60
          /\ W[2].timeout = 120

\* C4: after a successful erase, a first write that fails (non-zero exit
\* code) followed by a second write that succeeds makes flash_micropython
\* return True with exactly one retry; two failed writes make it return
\* False.
C4_RetryOutcome ==
    LET W == WriteCalls
        E == EraseCalls
    IN  (Len(E) = 1 /\ Succeeded(E[1]) /\ Len(W) >= 2 /\ Failed(W[1])) =>
            /\ Succeeded(W[Len(W)]) => (FlashTrue /\ ~FlashFalse /\ Len(W) - 1 = 1)
            /\ Failed(W[2]) => (FlashFalse /\ ~FlashTrue /\ Len(W) = 2 /\ exitStatus = 1)

C4_Witness ==
    /\ Len(WriteCalls) = 2
    /\ Failed(WriteCalls[1])
    /\ Succeeded(WriteCalls[2])
    /\ FlashTrue

\* C5: when the first write-image call times out, the single lower-baud
\* retry is still issued before flash_micropython reports failure.
C5_TimeoutIsRetried ==
    LET W == WriteCalls IN
    (Len(W) >= 1 /\ TimedOut(W[1]) /\ FlashFalse) => Len(W) = 2

\* C6: the erase call is issued at most once, and when it fails (non-zero
\* exit code or timeout) flash_micropython returns False at once: no
\* write-image call is issued and the session ends.
C6_EraseFailureIsFatal ==
    LET E == EraseCalls IN
    /\ Len(E) <= 1
    /\ (Len(E) = 1 /\ (Failed(E[1]) \/ TimedOut(E[1]))) =>
          /\ WriteCalls = <<>>
          /\ FlashFalse
          /\ pc = "exited"
          /\ exitStatus = 1

C6_Witness ==
    /\ Len(EraseCalls) = 1
    /\ Failed(EraseCalls[1])
    /\ pc = "exited"

\* flash_micropython was called and is no longer running.
FlashEnded ==
    /\ Happened(Call("flash_micropython"))
    /\ pc \notin {"flash_micropython", "write_flash", "write_retry"}

\* C7: flash_micropython returns True exactly when the erase call succeeded
\* and, after it, one of the at most two write-image calls succeeded; once
\* it has ended on any other combination of outcomes of its calls (non-zero
\* exit code, timeout, failure to launch), a keyboard interrupt apart, it
\* has returned False.
C7_NoPartialSuccess ==
    LET E == EraseCalls
        W == WriteCalls
        BothDone == /\ Len(E) = 1
                    /\ Succeeded(E[1])
                    /\ IsErase(calls[1])
                    /\ \E k \in 1..Len(W) : Succeeded(W[k])
    IN  /\ Len(W) <= 2
        /\ ~(FlashTrue /\ FlashFalse)
        /\ FlashTrue => BothDone
        /\ FlashFalse => ~BothDone
        /\ BothDone => FlashTrue
        /\ (/\ FlashEnded
            /\ ~BothDone
            /\ ~Happened(Raises("flash_micropython", Raise("KeyboardInterrupt"))))
              => /\ FlashFalse
                 /\ trace[Len(trace)] = Return("flash_micropython", "False")
                 /\ exitStatus = 1

\* After a successful erase the write call could not be launched, and the
\* step returned False.
C7_Witness ==
    /\ Len(EraseCalls) = 1
    /\ Succeeded(EraseCalls[1])
    /\ Len(WriteCalls) = 1
    /\ Happened(Raises("flash_micropython", Raise("FileNotFoundError")))
    /\ FlashFalse
    /\ pc = "exited"

\* C8: a quit input at a menu prompt (it makes the menu call sys.exit(0),
\* which raises SystemExit) ends the process with exit status 0 whatever
\* handlers enclose the menu.
C8_QuitExitsZero ==
    WasRaised("SystemExit") => (pc = "exited" /\ exitStatus = 0)

C8_Witness ==
    /\ Happened(Raises("get_firmware_versions", SysExit(0)))
    /\ pc = "exited"
    /\ exitStatus = 0

\* C9: a KeyboardInterrupt raised in any step ends the process with exit
\* status 0; no handler of a step turns it into a failure of the step.
C9_InterruptExitsZero ==
    WasRaised("KeyboardInterrupt") =>
        /\ pc = "exited"
        /\ exitStatus = 0
        /\ trace[Len(trace)].ev = "raise"

C9_Witness ==
    /\ Happened(Raises("flash_micropython", Raise("KeyboardInterrupt")))
    /\ Len(WriteCalls) = 1
    /\ exitStatus = 0

\* C10: the exit status is 0 when run completed every step through the
\* summary, and 1 when the device probe, the firmware resolution or the
\* flash step returned False or an exception of class Exception reached
\* main.
C10_ExitStatus ==
    LET last == trace[Len(trace)] IN
    pc = "exited" =>
        /\ last = Return("run", "True") => exitStatus = 0
        /\ \A fn \in {"detect_esp32_devices", "get_firmware_versions", "flash_micropython"} :
              last = Return(fn, "False") => exitStatus = 1
        /\ (last.ev = "raise" /\ IsSubclass(last.val, "Exception")) => exitStatus = 1

C10_Witness ==
    /\ pc = "exited"
    /\ Happened(Return("flash_micropython", "False"))
    /\ exitStatus = 1

\* The steps of run() that follow the device probe.
LaterSteps ==
    {"detect_current_firmware", "confirm_firmware_overwrite",
     "get_firmware_versions", "flash_micropython", "test_connection"}

\* The probe has gone through every candidate port.
ProbeFinished == pc = "probe" /\ portIdx > Len(ports)

\* C11: when the probe has gone through its candidates and accepted none, the
\* step returns False, the session ends with exit status 1, and no later step
\* of the workflow (inspection, confirmation, resolution, flash) is called.
C11_NoDeviceStops ==
    [][(ProbeFinished /\ esp32_ports = <<>>)
          => /\ pc' = "exited"
             /\ exitStatus' = 1
             /\ trace'[Len(trace')] = Return("detect_esp32_devices", "False")
             /\ \A k \in 1..Len(trace') :
                   ~(trace'[k].ev = "call" /\ trace'[k].fn \in LaterSteps)]_vars

\* A session that ended at the probe with nothing accepted and nothing chosen.
C11_Witness ==
    /\ pc = "exited"
    /\ exitStatus = 1
    /\ trace[Len(trace)] = Return("detect_esp32_devices", "False")
    /\ device_model = None
    /\ device_port = None

\* C12 as stated: whatever the probe accepted, nothing included, the finished
\* probe opens the device menu with the manual entry as its last item.
C12_ManualEntryAlwaysOffered ==
    [][ProbeFinished
          => /\ pc' = "device_menu"
             /\ items'[Len(items')] = ManualEntryItem]_vars

\* C12 amended: when the probe accepted at least one port, the device menu
\* lists the accepted ports followed by the manual entry as its last item; a
\* selection either picks one of the accepted ports or leads to manual entry;
\* the menu is only ever shown with at least one accepted port.
C12_ManualEntryWhenAccepted ==
    [][/\ (ProbeFinished /\ esp32_ports # <<>>)
            => /\ pc' = "device_menu"
               /\ Len(items') = Len(esp32_ports) + 1
               /\ items'[Len(items')] = ManualEntryItem
               /\ \A k \in 1..Len(esp32_ports) : items'[k].port = esp32_ports[k]
       /\ pc' = "device_menu" => esp32_ports' # <<>>
       /\ (pc = "device_menu" /\ pc' \notin {"device_menu", "exited"})
            => \/ pc' = "manual_entry"
               \/ \E k \in 1..Len(esp32_ports) : device_port' = esp32_ports[k]]_vars

\* The manual entry was selected from a menu that also listed a probed device.
C12_Witness ==
    /\ pc = "manual_entry"
    /\ esp32_ports # <<>>
    /\ device_info[Len(device_info)] = ManualEntryItem

\* C13: once get_firmware_versions or flash_micropython has been called,
\* device_model is one of esp32, esp32c3, esp32s3, esp32c6; and a chosen model
\* outside that set means the session has ended at the probe with status 1.
C13_SupportedModelOnly ==
    /\ (Happened(Call("get_firmware_versions")) \/ Happened(Call("flash_micropython")))
          => device_model \in {"esp32", "esp32c3", "esp32s3", "esp32c6"}
    /\ (device_model # None /\ device_model \notin {"esp32", "esp32c3", "esp32s3", "esp32c6"})
          => /\ pc = "exited"
             /\ exitStatus = 1
             /\ trace[Len(trace)] = Return("detect_esp32_devices", "False")

\* A model typed at manual entry that is not supported ended the session.
C13_Witness ==
    /\ device_model = "esp8266"
    /\ pc = "exited"
    /\ trace[Len(trace)] = Return("detect_esp32_devices", "False")

\* The inspection step is under way.
Inspecting == pc \in {"detect_current_firmware", "inspect_io"}

\* C14: whenever detect_current_firmware ends other than by a keyboard
\* interrupt, it returns a descriptor and the confirmation gate is the next
\* step called; if an exception of the serial transport (import, open, write
\* or read) ended it, the descriptor is not MicroPython, has version
\* "Detection failed" and carries the error in raw_output.
C14_InspectionNeverAborts ==
    [][(/\ Inspecting
        /\ ~Inspecting'
        /\ trace'[Len(trace')] # Raises("detect_current_firmware", Raise("KeyboardInterrupt")))
          => /\ pc' = "confirm_firmware_overwrite"
             /\ exitStatus' = -1
             /\ Len(trace') >= Len(trace) + 2
             /\ trace'[Len(trace') - 1]
                   = Return("detect_current_firmware", firmware_info'.version)
             /\ trace'[Len(trace')] = Call("confirm_firmware_overwrite")
             /\ Len(trace') = Len(trace) + 3
                   => /\ trace'[Len(trace) + 1].ev = "raise"
                      /\ firmware_info'.version = "Detection failed"
                      /\ ~firmware_info'.is_micropython
                      /\ firmware_info'.raw_output
                            = <<"Error: ", trace'[Len(trace) + 1].val>>]_vars

\* A read or write error on the open port was turned into a descriptor and
\* the gate was reached.
C14_Witness ==
    /\ pc = "confirm_firmware_overwrite"
    /\ Happened(Raises("detect_current_firmware", Raise("SerialException")))
    /\ serialOpen
    /\ firmware_info.version = "Detection failed"

\* Some line of the transcript holds the word MicroPython in any case.
HasRuntimeSignature(lines) ==
    \E i \in 1..Len(lines) :
       \E j \in 1..Len(Atoms(lines[i])) :
          LowerAtom(Atoms(lines[i])[j]) = "micropython"

\* The descriptor in firmware_info was computed from a transcript.
Classified ==
    /\ firmware_info # NoFirmwareInfo
    /\ firmware_info.version # "Detection failed"

\* C15: a descriptor computed from a transcript has is_micropython true
\* exactly when the transcript contains "micropython" in any case, whatever
\* else (esp32, esp-idf, arduino) the transcript contains.
C15_ClassificationPriority ==
    Classified =>
        (firmware_info.is_micropython <=> HasRuntimeSignature(firmware_info.raw_output))

\* A transcript with the Arduino, ESP32 and MicroPython signatures together
\* was classified as MicroPython.
C15_Witness ==
    /\ Classified
    /\ firmware_info.is_micropython
    /\ InOutput("arduino", firmware_info.raw_output)
    /\ InOutput("esp32", firmware_info.raw_output)

\* C16: the descriptor for the transcript "MicroPython v1.26.1 on esp32c3" has
\* is_micropython true and a version field other than the default "Unknown".
C16_BannerVersionCaptured ==
    (Classified /\ firmware_info.raw_output = <<"MicroPython v1.26.1 on esp32c3">>)
        => /\ firmware_info.is_micropython
           /\ firmware_info.version # "Unknown"

\* The primary and the alternate download both raised RequestException.
BothDownloadsFailed ==
    \E j, k \in 1..Len(trace) :
       /\ j < k
       /\ trace[j] = Raises("get_firmware_versions", Raise("RequestException"))
       /\ trace[k] = Raises("get_firmware_versions", Raise("RequestException"))

\* C17: after both downloads failed, a file of the working directory whose
\* name starts with the device model is used and the step returns True, and
\* the step returns False only if the directory holds no such file.
C17_LastRecovery ==
    BothDownloadsFailed =>
        IF glob_bin(device_model, workdir) # <<>>
        THEN /\ Happened(Return("get_firmware_versions", "True"))
             /\ firmware_file = glob_bin(device_model, workdir)[1]
        ELSE Happened(Return("get_firmware_versions", "False"))

\* The highlighted index after the arrow key `key` was pressed n times in the
\* menu selector, starting at idx.
RECURSIVE menu_after(_, _, _, _)
menu_after(its, idx, key, n) ==
    IF n = 0 THEN idx
    ELSE menu_after(its, display_menu_raw(its, idx, [kind |-> "key", text |-> key]).idx,
                    key, n - 1)

\* The same for the confirmation gate.
RECURSIVE gate_after(_, _, _, _)
gate_after(opts, idx, key, n) ==
    IF n = 0 THEN idx
    ELSE gate_after(opts, confirm_raw(opts, idx, [kind |-> "key", text |-> key]).idx,
                    key, n - 1)

\* C18: in raw mode, for the option list and the highlighted index of every
\* menu state, pressing "down" as many times as the list is long, or "up" as
\* many times, brings the highlighted index back to where it was, in the menu
\* selector and in the confirmation gate alike.
C18_WrapAround ==
    (terminal = "raw" /\ items # <<>>)
        => \A key \in {"UP", "DOWN"} :
              /\ current_index \in 0..(Len(items) - 1)
              /\ menu_after(items, current_index, key, Len(items)) = current_index
              /\ gate_after(items, current_index, key, Len(items)) = current_index

\* The firmware menu with the last of its four options highlighted: the
\* arrows have moved the index, "up" from the first option wrapping around.
C18_Witness ==
    /\ terminal = "raw"
    /\ pc = "firmware_menu"
    /\ Len(items) = 4
    /\ current_index = Len(items) - 1

\* The stripped line is the number of one of the options.
ValidChoice(text, its) ==
    /\ ParseInt(Strip(text)).ok
    /\ 1 <= ParseInt(Strip(text)).val
    /\ ParseInt(Strip(text)).val <= Len(its)

\* The stripped line is the quit command, in either case.
QuitChoice(text) == LowerLine(Strip(text)) = "q"

\* C19: in fallback mode, for the option list of every menu state and every
\* line the user may enter, the menu selector and the confirmation gate
\* return exactly when the line is an integer k with 1 <= k <= length, and
\* then the index k-1; on the quit command they exit with status 0; on every
\* other line they go round again with the highlighted index unchanged.
C19_FallbackSelection ==
    (terminal = "fallback" /\ items # <<>>)
        => \A in \in LineInputs :
              in.kind = "line"
                 => LET r == display_menu(items, current_index, "fallback", in)
                        g == confirm_step(items, current_index, "fallback", in)
                    IN  /\ (r.kind = "return") <=> ValidChoice(in.text, items)
                        /\ (g.kind = "return") <=> ValidChoice(in.text, items)
                        /\ ValidChoice(in.text, items)
                              => /\ r.idx = ParseInt(Strip(in.text)).val - 1
                                 /\ g.idx = ParseInt(Strip(in.text)).val - 1
                        /\ QuitChoice(in.text)
                              => /\ r = Raised(SysExit(0))
                                 /\ g = Raised(SysExit(0))
                        /\ (~ValidChoice(in.text, items) /\ ~QuitChoice(in.text))
                              => /\ r = Stay(current_index)
                                 /\ g = Stay(current_index)

\* In fallback mode the second firmware option was chosen by its number and
\* the download has begun.
C19_Witness ==
    /\ terminal = "fallback"
    /\ pc = "download"
    /\ current_index = 1

\* C20: test_connection is only called after flash_micropython returned True;
\* whenever it ends other than by a keyboard interrupt, whether it returned
\* True or caught an exception and returned False, the summary is the next
\* step; and the summary ends the session with run returning True and exit
\* status 0.
C20_SmokeTestNonFatal ==
    [][/\ pc = "test_connection" => FlashTrue
       /\ (/\ pc = "test_connection"
           /\ trace'[Len(trace')] # Raises("test_connection", Raise("KeyboardInterrupt")))
             => /\ pc' = "summary"
                /\ exitStatus' = -1
                /\ trace'[Len(trace') - 1].ev = "return"
                /\ trace'[Len(trace') - 1].fn = "test_connection"
       /\ pc = "summary"
             => /\ pc' = "exited"
                /\ exitStatus' = 0
                /\ trace'[Len(trace')] = Return("run", "True")]_vars

\* The smoke test timed out, and the session still ended with status 0 after
\* the summary.
C20_Witness ==
    /\ FlashTrue
    /\ Happened(Raises("test_connection", Raise("TimeoutExpired")))
    /\ Happened(Return("test_connection", "False"))
    /\ Happened(Call("summary"))
    /\ pc = "exited"
    /\ exitStatus = 0

\* The file name the catalog lists for a device model at a menu index, as
\* written out in the source.
CatalogName(model, idx) ==
    CASE model = "esp32c3" /\ idx \in {0, 2} -> "ESP32_GENERIC_C3-20250911-v1.26.1.bin"
      [] model = "esp32c3" /\ idx = 1        -> "ESP32_GENERIC_C3-20241220-v1.26.1.bin"
      [] model = "esp32s3" /\ idx \in {0, 2} -> "ESP32_GENERIC_S3-20250911-v1.26.1.bin"
      [] model = "esp32s3" /\ idx = 1        -> "ESP32_GENERIC_S3-20241220-v1.26.1.bin"
      [] model = "esp32c6" /\ idx \in {0, 2} -> "ESP32_GENERIC_C6-20250911-v1.26.1.bin"
      [] model = "esp32c6" /\ idx = 1        -> "ESP32_GENERIC_C6-20241220-v1.26.1.bin"
      [] model = "esp32" /\ idx \in {0, 2}   -> "ESP32_GENERIC-20250911-v1.26.1.bin"
      [] model = "esp32" /\ idx = 1          -> "ESP32_GENERIC-20241220-v1.26.1.bin"

\* C21: the locator fetched by the primary download, and the one fetched by
\* the alternate download, is a fixed function of the device model and the
\* selected menu index alone: whatever happened before (terminal mode, probe,
\* inspection, contents of the working directory), the same model and index
\* give the same two locators.
C21_LocatorDeterministic ==
    [][/\ pc = "download"
            => fetched' = Append(fetched,
                   [base |-> "https://micropython.org/resources/firmware/",
                    name |-> CatalogName(device_model, current_index)])
       /\ pc = "download_alt"
            => fetched' = Append(fetched,
                   [base |-> "https://github.com/micropython/micropython/releases/download/v1.26.1/",
                    name |-> CatalogName(device_model, current_index)])]_vars

\* Both locators were fetched in a working directory that already held files.
C21_Witness ==
    /\ Len(fetched) = 2
    /\ workdir # <<>>
    /\ fetched[1].name = fetched[2].name
    /\ fetched[1].base # fetched[2].base

\* The steps in the order main() and run() call them.
RunOrder ==
    <<"check_dependencies", "ensure_working_directory", "check_conda_environment",
      "detect_esp32_devices", "detect_current_firmware", "confirm_firmware_overwrite",
      "get_firmware_versions", "flash_micropython", "test_connection", "summary">>

\* The calls of steps made so far, in order.
StepCalls == SelectSeq(trace, LAMBDA e : e.ev = "call")

\* C22: the steps called so far are an initial part of the fixed order
\* (conda advisory, device probe, inspection, gate, resolution, flash, smoke
\* test, summary, after the two preparation steps), so no step is called
\* twice; a step that returned False ended the session, except the smoke
\* test; and an erase or write call has been issued only if the gate and the
\* resolution both returned True.
C22_FixedOrder ==
    /\ Len(StepCalls) <= Len(RunOrder)
    /\ \A k \in 1..Len(StepCalls) : StepCalls[k].fn = RunOrder[k]
    /\ \A k \in 1..Len(trace) :
          (trace[k].ev = "return" /\ trace[k].val = "False"
              /\ trace[k].fn # "test_connection")
             => (k = Len(trace) /\ pc = "exited")
    /\ calls # <<>>
          => /\ Happened(Return("confirm_firmware_overwrite", "True"))
             /\ Happened(Return("get_firmware_versions", "True"))
             /\ StepCalls[Len(StepCalls)].fn
                    \in {"flash_micropython", "test_connection", "summary"}

\* A session that went through every step to the end.
C22_Witness ==
    /\ pc = "exited"
    /\ Len(StepCalls) = Len(RunOrder)
    /\ Happened(Return("run", "True"))
    /\ Len(EraseCalls) = 1
    /\ Len(WriteCalls) >= 1

\* C23: once the confirmation gate has been called, the serial connection
\* opened by detect_current_firmware is closed, whichever way the inspection
\* ended.
C23_SerialClosedBeforeGate ==
    Happened(Call("confirm_firmware_overwrite")) => ~serialOpen

\* C24: a pass of the probe loop over a candidate port, whatever the chip-id
\* call does short of a keyboard interrupt (return 0, return non-zero, time
\* out, fail to launch), leaves the probe running and moves on to the next
\* candidate, accepting at most the candidate just probed.
C24_ProbeBestEffort ==
    [][(/\ pc = "probe"
        /\ portIdx <= Len(ports)
        /\ trace'[Len(trace')] # Raises("detect_esp32_devices", Raise("KeyboardInterrupt")))
          => /\ pc' = "probe"
             /\ portIdx' = portIdx + 1
             /\ ports' = ports
             /\ esp32_ports' \in {esp32_ports, Append(esp32_ports, ports[portIdx])}]_vars

\* Index i is a position of the list its.
InBounds(i, its) == 0 <= i /\ i < Len(its)

\* C25: while a menu is displayed, in raw or in fallback mode, the
\* highlighted index is a position of the option list, and so is the index
\* after any input that keeps the menu open and the index returned by any
\* input that selects, for the menu selector and the confirmation gate.
C25_IndexInBounds ==
    items # <<>>
        => /\ InBounds(current_index, items)
           /\ \A in \in Inputs(terminal) :
                 LET r == display_menu(items, current_index, terminal, in)
                     g == confirm_step(items, current_index, terminal, in)
                 IN  /\ r.kind \in {"stay", "return"} => InBounds(r.idx, items)
                     /\ g.kind \in {"stay", "return"} => InBounds(g.idx, items)

\* The gate in raw mode with its second option highlighted.
C25_Witness ==
    /\ terminal = "raw"
    /\ pc = "confirm_firmware_overwrite"
    /\ Len(items) = 2
    /\ current_index = 1

\* The keys that raw mode gives a meaning.
MeaningfulKeys == {"UP", "DOWN", "ENTER_CR", "ENTER_LF", "q", "CTRL_C"}

\* C26: in raw mode a key other than up, down, Enter, q and Ctrl-C keeps the
\* menu open with the same highlighted index, in the menu selector and in the
\* gate; and the gate returns True only from index 0 and False only from
\* index 1.
C26_OtherKeysIgnored ==
    [][/\ (terminal = "raw" /\ items # <<>>)
            => \A k \in Keys \ MeaningfulKeys :
                  /\ display_menu_raw(items, current_index, [kind |-> "key", text |-> k])
                        = Stay(current_index)
                  /\ confirm_raw(items, current_index, [kind |-> "key", text |-> k])
                        = Stay(current_index)
       /\ (/\ terminal = "raw"
           /\ pc = "confirm_firmware_overwrite"
           /\ trace'[Len(trace') - 1] = Return("confirm_firmware_overwrite", "True"))
            => current_index = 0
       /\ (/\ terminal = "raw"
           /\ pc = "confirm_firmware_overwrite"
           /\ trace'[Len(trace')] = Return("confirm_firmware_overwrite", "False"))
            => current_index = 1]_vars

\* In raw mode the gate returned False and the session ended there.
C26_Witness ==
    /\ terminal = "raw"
    /\ pc = "exited"
    /\ trace[Len(trace)] = Return("confirm_firmware_overwrite", "False")

====
